---- MODULE Spec2Model ----
(***************************************************************************)
(* Model of the FlashForge finder API server: the WebSocket subscription   *)
(* hub (the subscriptions map, ensurePolling, cleanupSubscription, the     *)
(* connection / message / close handlers and the setInterval callbacks),    *)
(* the device transaction sendAndReceive, the snapshot assembly            *)
(* fetchSnapshot, the progress percentage, the HTTP routes and the pattern *)
(* of the head coordinates.                                                *)
(***************************************************************************)
EXTENDS Integers, FiniteSets, Sequences, Bags, TLC

\* ------------------------------------------------------------------ bounds
MaxTimers == 6        \* setInterval handles in use at once
MaxInFlight == 2      \* poll-tick assemblies outstanding at once
MaxOneOff == 1        \* one-off assemblies outstanding at once
MaxLate == 1          \* listeners run on one socket after its promise is settled
IntBits == 12         \* binary digits kept before the point
FracBits == 72        \* binary digits kept after the point
DelayBits == 13       \* binary digits of a timer's delay (the runtime keeps 31)
MaxPageSockets == 3   \* WebSocket objects the page creates
MaxPageTimers == 3    \* setInterval handles the page is given

\* --------------------------------------------------------------- constants
MinInterval == 500
DefaultInterval == 2000
SignificandBits == 53

Devices == {"d1", "d2"}
OneDevice == {"d1"}
Sockets == {"w1", "w2"}
RawIntervals == {-1, 0, 2000, 5000}
ParamKinds == {"absent", "nan", "int"}
NoSocket == "none"
NoDevice == "none"

VARIABLES
    subscriptions,  \* the Map: ip -> [clients, intervalMs, timer], keys = DOMAIN
    timers,         \* live setInterval handles: [id, ip, entry, period]
    readyState,     \* socket -> "new" | "open" | "closing" | "closed"
    polls,          \* bag of poll-tick assemblies in flight: [ip, entry, fired]
    oneoffs,        \* bag of one-off assemblies in flight: [ip, ws]
    lowest,         \* history: ip -> the lowest interval asked since its entry was created
    tightener,      \* history: ip -> the socket that asked for it first
    joined,         \* history: socket -> the devices it subscribed to last and has not left
    out,            \* what the last handler did and sent
    fetch,          \* the fetchSnapshot call: "idle" | "pending" | "fulfilled" | "rejected"
    step,           \* the step fetchSnapshot is at, 0 before the call
    snapshot,       \* its locals info .. errors, and the timestamp of the object it returns
    client,         \* the net.Socket of the current sendAndReceive: [state, timer]
    promise,        \* the promise of the current sendAndReceive: [state, text, error]
    sockets,        \* sockets created so far
    sent,           \* messages written to the device so far
    results,        \* history: the outcome fetchSnapshot got from each sendAndReceive
    late,           \* listeners of the current socket run after its promise was settled
    answer,         \* what the requester of the one-off snapshot is sent
    progRes,        \* the text a GET route received in answer to its own message
    res,            \* what the HTTP route has answered with
    request,        \* the HTTP request being served: [route, body]
    phase,          \* where its route is: "idle" | "unlock" | "command" | "answered"
    page            \* the browser client: the fields of the FlashForgeFinder
                    \* instance and the browser objects it uses

hubVars == <<subscriptions, timers, readyState, polls, oneoffs, lowest, tightener, joined, out>>

fetchVars == <<fetch, step, snapshot, client, promise, sockets, sent, results, late, answer>>

routeVars == <<progRes, res, request, phase>>

vars == <<subscriptions, timers, readyState, polls, oneoffs, lowest, tightener, joined, out,
          fetch, step, snapshot, client, promise, sockets, sent, results, late, answer,
          progRes, res, request, phase, page>>

\* ----------------------------------------------------------------- helpers
Max2(a, b) == IF a >= b THEN a ELSE b

Min(S) == CHOOSE x \in S : \A y \in S : x <= y

BagAdd(b, x) == b (+) SetToBag({x})

BagRemove(b, x) == b (-) SetToBag({x})

\* A closure that captured the entry `ip` had in the map keeps that object.
KeepEntry(c, ip, kept) ==
    IF c.ip = ip /\ c.entry.live THEN [c EXCEPT !.entry = kept] ELSE c

RECURSIVE KeepEntries(_, _, _)
KeepEntries(b, ip, kept) ==
    IF BagToSet(b) = {}
    THEN EmptyBag
    ELSE LET x == CHOOSE y \in BagToSet(b) : TRUE
         IN  BagAdd(KeepEntries(BagRemove(b, x), ip, kept), KeepEntry(x, ip, kept))

\* The registry as one value, so that the hub functions are operators on it:
\* the map, the live timers and the callbacks suspended in an assembly.
Reg == [subs |-> subscriptions, tims |-> timers, ps |-> polls]

SetReg(r) ==
    /\ subscriptions' = r.subs
    /\ timers' = r.tims
    /\ polls' = r.ps

\* The `entry` a callback closure captured: the object the map holds for the
\* callback's ip, or an object the map has dropped; nothing can write to a
\* dropped object any more, so the closure is left holding its final clients.
Live == [live |-> TRUE, clients |-> {}]

Dropped(clients) == [live |-> FALSE, clients |-> clients]

ClientsOf(r, ip, ref) == IF ref.live THEN r.subs[ip].clients ELSE ref.clients

Quiet == [kind |-> "none", ip |-> NoDevice, ws |-> NoSocket, to |-> {},
          iv |-> 0, was |-> 0, pre |-> {}, fired |-> {}, gone |-> FALSE]

\* Devices in whose entry `ws` is registered.
RegisteredIn(r, ws) == {d \in DOMAIN r.subs : ws \in r.subs[d].clients}

\* Open sockets of a set: the readyState === OPEN test before each send.
OpenOf(S) == {w \in S : readyState[w] = "open"}

\* ------------------------------------------------------------ hub functions
\* Handles setInterval can return: not live, and not the one entry.timer still holds.
FreeTimers(r) ==
    (1..MaxTimers) \ ({t.id : t \in r.tims} \cup {r.subs[d].timer : d \in DOMAIN r.subs})

\* Which free handle is returned is the runtime's business: each device has
\* handles it is given first, so that equal registries get equal names.
DeviceIndex(ip) == IF ip = "d1" THEN 1 ELSE 2

NewTimer(r, ip) ==
    LET own == {2 * DeviceIndex(ip) - 1, 2 * DeviceIndex(ip)} \cap FreeTimers(r)
    IN  IF own # {} THEN Min(own) ELSE Min(FreeTimers(r))

\* The longest delay a timer of the runtime takes: 2^31 - 1 ms there.
TIMEOUT_MAX == 2^DelayBits - 1

\* The delay setInterval runs with: one outside 1 .. TIMEOUT_MAX becomes 1.
TimerDelay(period) == IF period >= 1 /\ period <= TIMEOUT_MAX THEN period ELSE 1

\* entry.timer = setInterval(callback(ip, entry), period)
SetInterval(r, ip, period) ==
    LET id == NewTimer(r, ip)
    IN  [r EXCEPT !.tims = @ \cup {[id |-> id, ip |-> ip, entry |-> Live,
                                    period |-> TimerDelay(period)]},
                  !.subs[ip].timer = id]

\* clearInterval(handle)
ClearInterval(r, id) == [r EXCEPT !.tims = {t \in @ : t.id # id}]

\* Variant: the number of the message is taken as it is.
MessageIntervalAsGiven(given, n) == IF given THEN n ELSE DefaultInterval

\* Interval of a subscribe message: typeof number ? Math.max(500, n) : 2000
MessageInterval(given, n) == IF given THEN Max2(MinInterval, n) ELSE DefaultInterval

\* Interval of the opening parameters: parseInt(param || '2000'), NaN -> 2000
ConnectInterval(kind, n) ==
    LET parsed == IF kind = "absent" THEN DefaultInterval ELSE n
    IN  IF kind = "nan" THEN DefaultInterval ELSE Max2(MinInterval, parsed)

\* The intervals the two handlers can pass to ensurePolling.
MessageIntervals == {MessageInterval(given, n) : given \in BOOLEAN, n \in RawIntervals}

ConnectIntervals == {ConnectInterval(kind, n) : kind \in ParamKinds, n \in RawIntervals}

\* Variant: the comparison the wrong way round.
RetuneWhenLooser(iv, current) == iv > current

\* Variant: an equal interval retunes as well.
RetuneWhenNotLooser(iv, current) == iv <= current

\* intervalMs < existing.intervalMs
ShouldRetune(iv, current) == iv < current

\* ensurePolling(ip, intervalMs): the registry afterwards; the entry it returns
\* is the one the map then holds for ip.
EnsurePolling(r, ip, iv) ==
    IF ip \in DOMAIN r.subs
    THEN IF ShouldRetune(iv, r.subs[ip].intervalMs)
         THEN SetInterval(
                  [ClearInterval(r, r.subs[ip].timer) EXCEPT !.subs[ip].intervalMs = iv],
                  ip, iv)
         ELSE r
    ELSE LET entry == [clients |-> {}, intervalMs |-> iv, timer |-> 0]
         IN  SetInterval([r EXCEPT !.subs = (ip :> entry) @@ @], ip, iv)

\* Whether ensurePolling finds a handle within the bounds of the model.
Fits(r, ip, iv) ==
    (ip \in DOMAIN r.subs => ShouldRetune(iv, r.subs[ip].intervalMs)) => FreeTimers(r) # {}

\* entry.clients.add(ws), entry being the map's entry of ip
AddClient(r, ip, ws) == [r EXCEPT !.subs[ip].clients = @ \cup {ws}]

\* Variant: the socket stays in the set.
DeleteNothing(r, ip, ws) == r

\* entry.clients.delete(ws)
DeleteClient(r, ip, ws) == [r EXCEPT !.subs[ip].clients = @ \ {ws}]

\* subscriptions.delete(ip): the closures that captured the entry keep the object
Drop(r, ip) ==
    LET kept == Dropped(r.subs[ip].clients)
    IN  [subs |-> [d \in DOMAIN r.subs \ {ip} |-> r.subs[d]],
         tims |-> {KeepEntry(t, ip, kept) : t \in r.tims},
         ps |-> KeepEntries(r.ps, ip, kept)]

\* Variants of cleanupSubscription: one that never removes the entry, one that
\* stops the timer whatever the size of the set, one that removes the entry and
\* leaves its timer running, one that removes the entry whatever the size.
CleanupKeepsEntry(r, ip) == r

CleanupStopsTimerEarly(r, ip) ==
    IF ip \notin DOMAIN r.subs
    THEN r
    ELSE LET c == ClearInterval(r, r.subs[ip].timer)
         IN  IF r.subs[ip].clients = {} THEN Drop(c, ip) ELSE c

CleanupLeavesTimer(r, ip) ==
    IF ip \notin DOMAIN r.subs
    THEN r
    ELSE IF r.subs[ip].clients = {} THEN Drop(r, ip) ELSE r

CleanupIgnoresSize(r, ip) ==
    IF ip \notin DOMAIN r.subs THEN r ELSE Drop(ClearInterval(r, r.subs[ip].timer), ip)

\* cleanupSubscription(ip)
CleanupSubscription(r, ip) ==
    IF ip \notin DOMAIN r.subs
    THEN r
    ELSE IF r.subs[ip].clients = {}
         THEN Drop(ClearInterval(r, r.subs[ip].timer), ip)
         ELSE r

\* Variant: the entry is made sure of and the socket is not added to it.
SubscribeWithoutAdd(r, ip, iv, ws) == EnsurePolling(r, ip, iv)

\* The subscribe branch of the message handler, and the connect-time pre-subscribe.
SubscribeReg(r, ip, iv, ws) == AddClient(EnsurePolling(r, ip, iv), ip, ws)

\* The unsubscribe branch of the message handler.
UnsubscribeReg(r, ip, ws) ==
    IF ip \in DOMAIN r.subs
    THEN CleanupSubscription(DeleteClient(r, ip, ws), ip)
    ELSE r

\* Variant: the loop ends after the first entry of the map.
CloseStopsAtFirst(r, ws, ips) ==
    IF ips = {}
    THEN r
    ELSE LET ip == CHOOSE d \in ips : TRUE
         IN  CleanupSubscription(DeleteClient(r, ip, ws), ip)

\* The close handler: for every [ip, entry] of the map, delete ws and clean up.
RECURSIVE CloseLoop(_, _, _)
CloseLoop(r, ws, ips) ==
    IF ips = {}
    THEN r
    ELSE LET ip == CHOOSE d \in ips : TRUE
         IN  CloseLoop(CleanupSubscription(DeleteClient(r, ip, ws), ip), ws, ips \ {ip})

CloseReg(r, ws) == CloseLoop(r, ws, DOMAIN r.subs)

\* Variants of the broadcast: to the set read when the tick fired; a loop that a
\* closed channel aborts; the entry looked up in the map again by ip.
RecipientsAtFire(r, p) == OpenOf(p.fired)

RecipientsUntilClosed(r, p) ==
    IF OpenOf(ClientsOf(r, p.ip, p.entry)) = ClientsOf(r, p.ip, p.entry)
    THEN ClientsOf(r, p.ip, p.entry)
    ELSE {}

RecipientsByLookup(r, p) ==
    IF p.ip \in DOMAIN r.subs THEN OpenOf(r.subs[p.ip].clients) ELSE {}

\* The sockets a finished poll-tick assembly is sent to: the loop over
\* entry.clients of the captured entry, run when the assembly has resolved.
Recipients(r, p) == OpenOf(ClientsOf(r, p.ip, p.entry))

\* History: the lowest interval asked of each entry since it was created
\* (0 while the device has no entry).
Asked(r0, r1, ip, iv) ==
    [d \in Devices |->
        IF d \notin DOMAIN r1.subs THEN 0
        ELSE IF d # ip THEN lowest[d]
        ELSE IF d \notin DOMAIN r0.subs THEN iv
        ELSE Min({lowest[d], iv})]

\* History: the socket that first asked for that lowest interval.
Tightened(r0, r1, ip, iv, ws) ==
    [d \in Devices |->
        IF d \notin DOMAIN r1.subs THEN NoSocket
        ELSE IF d # ip THEN tightener[d]
        ELSE IF d \notin DOMAIN r0.subs \/ iv < lowest[d] THEN ws
        ELSE tightener[d]]

\* ------------------------------------------------- double-precision numbers
\* Math.floor((a / b) * 100) is computed in IEEE 754 doubles: the quotient is
\* rounded to 53 significant bits, and so is its product with 100.  A number is
\* held in binary fixed point, IntBits before the point and FracBits after it.
RECURSIVE Pow2(_)
Pow2(n) == IF n = 0 THEN 1 ELSE 2 * Pow2(n - 1)

Width == IntBits + FracBits

\* 2^k modulo b, by squaring.
RECURSIVE Pow2Mod(_, _)
Pow2Mod(k, b) ==
    IF k = 0 THEN 1 % b
    ELSE LET h == Pow2Mod(k \div 2, b)
         IN  (h * h * (IF k % 2 = 1 THEN 2 ELSE 1)) % b

\* a / b for naturals a and b > 0, exactly as far as the digits go; `sticky`
\* tells whether anything non-zero lies beyond them.  Digit k after the point
\* is the integer part of twice the remainder left by the first k - 1 digits.
Quotient(a, b) ==
    [bits   |-> [i \in 1..Width |->
                    IF i <= IntBits
                    THEN ((a \div b) \div Pow2(IntBits - i)) % 2
                    ELSE (2 * (((a % b) * Pow2Mod(i - IntBits - 1, b)) % b)) \div b]
                \o <<>>,
     sticky |-> ((a % b) * Pow2Mod(FracBits, b)) % b # 0]

\* Round to nearest, ties to even, at SignificandBits significant digits.
RoundToDouble(x) ==
    LET ones == {i \in 1..Width : x.bits[i] = 1}
    IN  IF ones = {} THEN x
        ELSE LET first == Min(ones)
                 last  == first + SignificandBits - 1
             IN  IF last >= Width THEN x
                 ELSE LET rest == x.sticky \/ \E j \in (last + 2)..Width : x.bits[j] = 1
                          up   == x.bits[last + 1] = 1 /\ (rest \/ x.bits[last] = 1)
                          zero == IF up
                                  THEN CHOOSE j \in {i \in 1..last : x.bits[i] = 0} :
                                           \A i \in (j + 1)..last : x.bits[i] = 1
                                  ELSE 0
                          kept == SubSeq(x.bits, 1, zero - 1) \o <<1>>
                                      \o [i \in 1..(last - zero) |-> 0]
                      IN  [bits   |-> (IF up THEN kept ELSE SubSeq(x.bits, 1, last))
                                          \o [i \in 1..(Width - last) |-> 0],
                           sticky |-> FALSE]

ShiftLeft(b, s) == SubSeq(b, s + 1, Width) \o [i \in 1..s |-> 0]

\* a + b in binary: a carry enters digit i when some digit to its right makes
\* one and every digit in between passes it on.
AddBits(a, b) ==
    LET carry(i) == \E j \in (i + 1)..Width :
                        /\ a[j] + b[j] = 2
                        /\ \A k \in (i + 1)..(j - 1) : a[k] + b[k] = 1
    IN  [i \in 1..Width |-> (a[i] + b[i] + (IF carry(i) THEN 1 ELSE 0)) % 2] \o <<>>

\* x * 100 for a double x, exactly: 100 = 64 + 32 + 4.
TimesHundred(x) ==
    [bits   |-> AddBits(AddBits(ShiftLeft(x.bits, 6), ShiftLeft(x.bits, 5)),
                        ShiftLeft(x.bits, 2)),
     sticky |-> FALSE]

RECURSIVE IntegerPart(_, _)
IntegerPart(b, i) ==
    IF i > IntBits THEN 0 ELSE b[i] * Pow2(IntBits - i) + IntegerPart(b, i + 1)

\* Math.floor((a / b) * 100), b # 0
FloorPercent(a, b) ==
    IntegerPart(RoundToDouble(TimesHundred(RoundToDouble(Quotient(a, b)))).bits, 1)

\* ---------------------------------------------------------- device replies
\* The steps of fetchSnapshot, in the order of its try blocks, and the message
\* each one hands to sendAndReceive.
Steps == <<"CONTROL", "INFO", "HEAD_POSITION", "TEMP", "PROGRESS", "STATUS">>

PROTOCOL_MESSAGES ==
    [CONTROL |-> "~M601 S1\r\n", INFO |-> "~M115\r\n", HEAD_POSITION |-> "~M114\r\n",
     TEMP |-> "~M105\r\n", PROGRESS |-> "~M27\r\n", STATUS |-> "~M119\r\n",
     LED_ON |-> "~M146 r255 g255 b255\r\n", LED_OFF |-> "~M146 r0 g0 b0\r\n",
     PAUSE |-> "~M25\r\n", RESUME |-> "~M24\r\n", CANCEL |-> "~M26\r\n",
     HOME |-> "~G28\r\n"]

\* A reply text is held as what each pattern of REGEX_PATTERNS finds in it: the
\* captured groups of its first match, or no match.
NoMatch == <<>>

Null == "<null>"

EmptyObject == <<>>

REGEX_PATTERNS ==
    {"Machine Type", "Machine Name", "Firmware", "SN", "Tool Count", "macAddress",
     "buildVolume", "X", "Y", "Z", "t0", "t1", "bed", "progressBytes",
     "progressLayers", "Status", "MachineStatus", "MoveMode", "Endstop", "led",
     "currentFile", "statusFlags"}

Found(groups) ==
    [p \in REGEX_PATTERNS |-> IF p \in DOMAIN groups THEN groups[p] ELSE NoMatch]

NoText == [raw |-> "", found |-> Found(EmptyObject)]

\* A chunk in which no pattern finds anything.
Unrelated == [raw |-> "ok\r\n", found |-> Found(EmptyObject)]

\* REGEX_PATTERNS.coordinates(fieldName) on a text held as its characters.
\* The pattern is built from the template literal `${fieldName}:\s*([^\s]+)`,
\* in which the escape \s stands for the letter s: what is compiled is
\* fieldName, a colon, any number of the letter s, and one group of one or
\* more characters other than the letter s.
\* text.match(REGEX_PATTERNS.coordinates(fieldName)): the groups of the
\* leftmost match, or no match.  AfterRun is where the run of the letter s
\* that begins at k ends (Len(text) + 1 if the text ends with it), GroupEnd
\* where the group that begins at j ends: the group takes all it can.
Coordinates(fieldName, text) ==
    LET AfterRun(k) ==
            CHOOSE j \in k..(Len(text) + 1) :
                /\ \A m \in k..(j - 1) : text[m] = "s"
                /\ j = Len(text) + 1 \/ text[j] # "s"
        GroupEnd(j) ==
            CHOOSE e \in j..Len(text) :
                /\ \A m \in j..e : text[m] # "s"
                /\ e = Len(text) \/ text[e + 1] = "s"
        starts == {i \in 1..(Len(text) - 1) :
                      /\ text[i] = fieldName
                      /\ text[i + 1] = ":"
                      /\ AfterRun(i + 2) <= Len(text)}
    IN  IF starts = {} THEN NoMatch
        ELSE LET j == AfterRun(Min(starts) + 2)
             IN  <<SubSeq(text, j, GroupEnd(j))>>

\* A reply to the head position message, as characters: the three fields on
\* one line, each value followed by what the device sends next.
HeadLine(x, y, z, rest) ==
    <<"X", ":">> \o x \o <<" ", "Y", ":">> \o y \o <<" ", "Z", ":">> \o z \o rest

\* The replies to the head position message that are looked at.
HeadLines ==
    LET values == {<<"1", "0">>, <<"-", "2", ".", "5">>, <<"0">>}
        rests  == {<<>>, <<"\r", "\n", "o", "k", "\r", "\n">>,
                   <<" ", "A", ":", "0", "\r", "\n">>}
    IN  {HeadLine(x, y, z, rest) : x \in values, y \in values, z \in values, rest \in rests}
        \cup {<<"o", "k", "\r", "\n">>, <<"X", ":", "s">>,
              <<"Z", ":", "s", "3", "s", "Y", ":", "4">>}

\* What the patterns find in a reply made of these characters.
HeadText(chars) ==
    [raw |-> "HEAD_POSITION",
     found |-> Found([f \in {"X", "Y", "Z"} |-> Coordinates(f, chars)]),
     chars |-> chars]

\* What a printer typically answers to each message.
Typical(name) ==
    [raw   |-> name,
     found |-> Found(
        CASE name = "INFO" ->
                 ("Machine Type" :> <<"Adventurer 3">>) @@ ("Machine Name" :> <<"ff">>)
                 @@ ("Firmware" :> <<"v1.0">>) @@ ("SN" :> <<"SN1">>)
                 @@ ("Tool Count" :> <<"1">>) @@ ("macAddress" :> <<"AA:BB">>)
                 @@ ("buildVolume" :> <<"150", "150", "150">>)
          [] name = "HEAD_POSITION" ->
                 [f \in {"X", "Y", "Z"} |->
                     Coordinates(f, HeadLine(<<"1", "0">>, <<"2", "0">>, <<"3", "0">>,
                                             <<"\r", "\n", "o", "k", "\r", "\n">>))]
          [] name = "TEMP" ->
                 ("t0" :> <<"210", "215">>) @@ ("bed" :> <<"60", "60">>)
          [] name = "PROGRESS" ->
                 ("progressBytes" :> << <<5, 0>>, <<2, 0, 0>> >>)
                 @@ ("progressLayers" :> << <<3>>, <<1, 2>> >>)
          [] name = "STATUS" ->
                 ("Status" :> <<"S:1 L:0">>) @@ ("MachineStatus" :> <<"READY">>)
                 @@ ("MoveMode" :> <<"READY">>) @@ ("Endstop" :> <<"X-max:1">>)
                 @@ ("led" :> <<"1">>) @@ ("statusFlags" :> <<"S:1 L:0">>)
          [] OTHER -> EmptyObject)]

\* The chunks the device may answer a message with (a chunk is never empty).
Replies(name) ==
    IF name = "CONTROL" THEN {Unrelated} ELSE {Unrelated, Typical(name)}

\* parseInt of a run of decimal digits
RECURSIVE ParseInt(_)
ParseInt(digits) ==
    IF digits = <<>> THEN 0
    ELSE 10 * ParseInt(SubSeq(digits, 1, Len(digits) - 1)) + digits[Len(digits)]

\* info: the mapped fields, the MAC address and the build volume that were found
Mappings ==
    {[key |-> "Type", src |-> "Machine Type"], [key |-> "Name", src |-> "Machine Name"],
     [key |-> "Firmware", src |-> "Firmware"], [key |-> "SN", src |-> "SN"],
     [key |-> "Tool Count", src |-> "Tool Count"]}

InfoOf(found) ==
    LET hits == {m \in Mappings : found[m.src] # NoMatch}
        src(k) == (CHOOSE m \in hits : m.key = k).src
        mac == found["macAddress"]
        vol == found["buildVolume"]
    IN  [k \in {m.key : m \in hits} |-> found[src(k)][1]]
        @@ (IF mac # NoMatch THEN "Mac Address" :> mac[1] ELSE EmptyObject)
        @@ (IF vol # NoMatch
            THEN [BuildVolumeX |-> vol[1], BuildVolumeY |-> vol[2], BuildVolumeZ |-> vol[3]]
            ELSE EmptyObject)

\* headLocation / status: one key for each field whose pattern matched
FieldsOf(found, keyOf) ==
    [k \in {keyOf[p] : p \in {q \in DOMAIN keyOf : found[q] # NoMatch}} |->
        found[CHOOSE p \in DOMAIN keyOf : keyOf[p] = k][1]]

HeadKeys == [p \in {"X", "Y", "Z"} |-> p]

HeadLocationOf(found) == FieldsOf(found, HeadKeys)

StatusKeys ==
    [p \in {"Status", "MachineStatus", "MoveMode", "Endstop"} |-> p]
    @@ ("led" :> "LED") @@ ("currentFile" :> "CurrentFile")
    @@ ("statusFlags" :> "StatusFlags")

StatusOf(found) == FieldsOf(found, StatusKeys)

\* m ? m[k] : null
GroupOrNull(m, k) == IF m # NoMatch THEN m[k] ELSE Null

TemperaturesOf(found) ==
    [Temperature          |-> GroupOrNull(found["t0"], 1),
     TargetTemperature    |-> GroupOrNull(found["t0"], 2),
     T1Temperature        |-> GroupOrNull(found["t1"], 1),
     T1TargetTemperature  |-> GroupOrNull(found["t1"], 2),
     BedTemperature       |-> GroupOrNull(found["bed"], 1),
     BedTargetTemperature |-> GroupOrNull(found["bed"], 2)]

\* total === 0 ? 0 : Math.floor((printed / total) * 100)
BytesPercentage(printed, total) == IF total = 0 THEN 0 ELSE FloorPercent(printed, total)

\* PercentageCompleted, from the matches of progressBytes and progressLayers:
\* the layers are used when the percentage so far is 0 and LayerTotal is not.
PercentageCompleted(bytes, layers) ==
    LET sofar == IF bytes # NoMatch
                 THEN BytesPercentage(ParseInt(bytes[1]), ParseInt(bytes[2]))
                 ELSE 0
    IN  IF layers # NoMatch /\ sofar = 0 /\ ParseInt(layers[2]) # 0
        THEN FloorPercent(ParseInt(layers[1]), ParseInt(layers[2]))
        ELSE sofar

ProgressOf(found) ==
    LET bytes  == found["progressBytes"]
        layers == found["progressLayers"]
        base   == [BytesPrinted        |-> IF bytes # NoMatch THEN ParseInt(bytes[1]) ELSE 0,
                   BytesTotal          |-> IF bytes # NoMatch THEN ParseInt(bytes[2]) ELSE 0,
                   PercentageCompleted |-> PercentageCompleted(bytes, layers)]
    IN  IF layers # NoMatch
        THEN base @@ [LayerCurrent |-> ParseInt(layers[1]), LayerTotal |-> ParseInt(layers[2])]
        ELSE base

\* The locals of fetchSnapshot as they are declared, before any reply.
Defaults ==
    [info         |-> EmptyObject,
     headLocation |-> EmptyObject,
     temperatures |-> [Temperature |-> Null, TargetTemperature |-> Null],
     progress     |-> [BytesPrinted |-> 0, BytesTotal |-> 0, PercentageCompleted |-> 0],
     status       |-> EmptyObject,
     errors       |-> <<>>,
     timestamp    |-> Null]

\* The local a step assigns, and what it assigns from the text it received.
SectionOf == [INFO |-> "info", HEAD_POSITION |-> "headLocation", TEMP |-> "temperatures",
              PROGRESS |-> "progress", STATUS |-> "status"]

Parsed(name, found) ==
    CASE name = "INFO" -> InfoOf(found)
      [] name = "HEAD_POSITION" -> HeadLocationOf(found)
      [] name = "TEMP" -> TemperaturesOf(found)
      [] name = "PROGRESS" -> ProgressOf(found)
      [] name = "STATUS" -> StatusOf(found)

\* ------------------------------------------------------------ sendAndReceive
Pending == [state |-> "pending", text |-> NoText, error |-> ""]

Resolved(text) == [state |-> "resolved", text |-> text, error |-> ""]

Rejected(message) == [state |-> "rejected", text |-> NoText, error |-> message]

\* Variant: a promise that takes the last outcome it is given.
SettleAgain(p, outcome) == outcome

\* resolve(..) / reject(..): a promise keeps the first outcome it is given.
Settle(p, outcome) == IF p.state = "pending" THEN outcome ELSE p

NoClient == [state |-> "none", timer |-> FALSE]

\* A socket that is closed: its connection is gone and its timeout is cleared.
Closed == [state |-> "destroyed", timer |-> FALSE]

\* Variant: a destroy that leaves the connection as it is.
DestroyLater(c) == c

\* client.destroy()
Destroy(c) == Closed

TimeoutMessage == "Connection timeout"

\* The message of the error a socket fails with, by where it has got to.
ErrorMessage(c) == IF c.state = "connecting" THEN "connect ECONNREFUSED" ELSE "read ECONNRESET"

\* sendAndReceive(ip, message) up to its return: a new socket with its timeout
\* armed, connecting, and a new pending promise.
SendAndReceive ==
    /\ client' = [state |-> "connecting", timer |-> TRUE]
    /\ promise' = Pending
    /\ sockets' = sockets + 1
    /\ late' = 0

\* ------------------------------------------------------------- fetchSnapshot
Now == "now"

\* GET /:ip/progress has not answered.
NoResponse == <<>>

\* Variant: the unlock step outside any try block.
UnlockUnguarded(name) == name \in {Steps[i] : i \in 2..6}

\* Whether the await of a step is inside a try block.
InTry(name) == name \in {Steps[i] : i \in 1..6}

\* Variant: a step that finds nothing in its reply throws.
ThrowsOnNoMatch(name, p) ==
    \/ p.state = "rejected"
    \/ name # "CONTROL" /\ \A q \in REGEX_PATTERNS : p.text.found[q] = NoMatch

\* Whether the body of a step's try block throws: when sendAndReceive rejects.
\* match and parseInt do not throw, and a group is read only from a match.
Throws(name, p) == p.state = "rejected"

\* e.message
MessageOf(p) == IF p.state = "rejected" THEN p.error ELSE "TypeError"

\* Variant: a catch block that records nothing.
CatchSilently(s, name, message) == s

\* catch (e) { errors.push({ step, error: e.message }) }
Catch(s, name, message) ==
    [s EXCEPT !.errors = Append(@, [step |-> name, error |-> message])]

\* The body of a step's try block after the await.
Assign(s, name, text) ==
    IF name = "CONTROL" THEN s ELSE [s EXCEPT ![SectionOf[name]] = Parsed(name, text.found)]

\* Variant: nothing is asked of a device whose unlock failed.
StopAfterFailedUnlock(i, threw) == IF i = 1 /\ threw THEN 7 ELSE i + 1

\* The step after step i, whatever its outcome.
NextStep(i, threw) == i + 1

\* -------------------------------------------------------------- HTTP routes
\* The JSON bodies of a request to POST /:ip/led: each of r, g and b is a
\* number or anything else.
LedBodies ==
    LET Components == {[num |-> FALSE, n |-> 0]}
                      \cup {[num |-> TRUE, n |-> n] : n \in {-1, 0, 128, 255, 256}}
    IN  [state : {"off", "on", "absent"}, r : Components, g : Components, b : Components]

NoBody == [state |-> "absent", r |-> [num |-> FALSE, n |-> 0],
           g |-> [num |-> FALSE, n |-> 0], b |-> [num |-> FALSE, n |-> 0]]

NoRequest == [route |-> "none", body |-> NoBody]

\* The routes that talk to the device, and the message each sends after the
\* unlock message (POST /:ip/led builds its own).
RouteMessage ==
    [led |-> "LED_ON", pause |-> "PAUSE", resume |-> "RESUME", cancel |-> "CANCEL",
     home |-> "HOME", info |-> "INFO", headLocation |-> "HEAD_POSITION",
     temp |-> "TEMP", progress |-> "PROGRESS", status |-> "STATUS"]

\* Variant: a component bounded from below only.
ClampBelow(n) == Max2(0, n)

\* Math.min(255, Math.max(0, n))
Clamp(n) == Min({255, Max2(0, n)})

\* The command of POST /:ip/led, from the state, r, g and b of the body.
LedCommand(body) ==
    IF body.state = "off"
    THEN PROTOCOL_MESSAGES.LED_OFF
    ELSE IF body.r.num /\ body.g.num /\ body.b.num
         THEN "~M146 r" \o ToString(Clamp(body.r.n)) \o " g" \o ToString(Clamp(body.g.n))
              \o " b" \o ToString(Clamp(body.b.n)) \o "\r\n"
         ELSE PROTOCOL_MESSAGES.LED_ON

\* The message of the second transaction of a route.
Command(req) ==
    IF req.route = "led" THEN LedCommand(req.body)
    ELSE PROTOCOL_MESSAGES[RouteMessage[req.route]]

\* The message the sendAndReceive in progress was called with.
CurrentMessage ==
    IF request = NoRequest THEN PROTOCOL_MESSAGES[Steps[step]]
    ELSE IF phase = "unlock" THEN PROTOCOL_MESSAGES.CONTROL
    ELSE Command(request)

\* ----------------------------------------------------------- browser client
\* The page after `new FlashForgeFinder()`: the fields isConnected,
\* autoRefreshInterval, ws and wsConnected of the instance (0 stands for null,
\* a WebSocket is named by its index in sockets), the auto-refresh checkbox,
\* the readyState of every WebSocket the page has created, the setInterval
\* handles that are live and the number of handles given out so far.
NewPage ==
    [isConnected |-> FALSE, autoRefreshInterval |-> 0, ws |-> 0, wsConnected |-> FALSE,
     checked |-> FALSE, sockets |-> <<>>, timers |-> {}, made |-> 0]

\* stopAutoRefresh()
StopAutoRefresh(p) ==
    IF p.autoRefreshInterval # 0
    THEN [p EXCEPT !.timers = @ \ {p.autoRefreshInterval}, !.autoRefreshInterval = 0]
    ELSE p

\* startAutoRefresh(): with wsConnected set it only sends a subscribe message
StartAutoRefresh(p) ==
    IF p.wsConnected
    THEN p
    ELSE [p EXCEPT !.made = @ + 1, !.timers = @ \cup {p.made + 1},
                   !.autoRefreshInterval = p.made + 1]

\* startWebSocket(ip): stopWebSocket() first, whose close() starts the closing
\* handshake of a socket that is connecting or open (its close event comes
\* later) and which clears ws and wsConnected; then a new socket is created
\* and the handlers are attached to it
StartWebSocket(p) ==
    LET closing == IF p.ws # 0 /\ p.sockets[p.ws] \in {"connecting", "open"}
                   THEN [p.sockets EXCEPT ![p.ws] = "closing"]
                   ELSE p.sockets
    IN  [p EXCEPT !.sockets = Append(closing, "connecting"), !.ws = Len(p.sockets) + 1,
                  !.wsConnected = FALSE]

\* ------------------------------------------------------------------ actions
InitHub ==
    /\ subscriptions = <<>>
    /\ timers = {}
    /\ readyState = [w \in Sockets |-> "new"]
    /\ polls = EmptyBag
    /\ oneoffs = EmptyBag
    /\ lowest = [d \in Devices |-> 0]
    /\ tightener = [d \in Devices |-> NoSocket]
    /\ joined = [w \in Sockets |-> {}]
    /\ out = Quiet

\* No snapshot has been asked for.
InitFetch ==
    /\ fetch = "idle"
    /\ step = 0
    /\ snapshot = Defaults
    /\ client = NoClient
    /\ promise = Pending
    /\ sockets = 0
    /\ sent = <<>>
    /\ results = <<>>
    /\ late = 0
    /\ answer = "none"

\* No progress has been asked for.
InitRoute ==
    /\ progRes = NoText
    /\ res = NoResponse
    /\ request = NoRequest
    /\ phase = "idle"
    /\ page = NewPage

Init == InitHub /\ InitFetch /\ InitRoute

\* wss.on('connection') without an ip in the opening parameters.
ConnectPlain(ws) ==
    /\ readyState[ws] = "new"
    /\ readyState' = [readyState EXCEPT ![ws] = "open"]
    /\ out' = [Quiet EXCEPT !.kind = "connected"]
    /\ UNCHANGED <<subscriptions, timers, polls, oneoffs, lowest, tightener, joined>>

\* wss.on('connection') with ?ip=..&interval=..: pre-subscribe and immediate snapshot.
ConnectSubscribe(ws, ip, iv) ==
    LET r1 == SubscribeReg(Reg, ip, iv, ws)
    IN  /\ readyState[ws] = "new"
        /\ Fits(Reg, ip, iv)
        /\ BagCardinality(oneoffs) < MaxOneOff
        /\ readyState' = [readyState EXCEPT ![ws] = "open"]
        /\ SetReg(r1)
        /\ oneoffs' = BagAdd(oneoffs, [ip |-> ip, ws |-> ws])
        /\ lowest' = Asked(Reg, r1, ip, iv)
        /\ tightener' = Tightened(Reg, r1, ip, iv, ws)
        /\ joined' = [joined EXCEPT ![ws] = @ \cup {ip}]
        /\ out' = [Quiet EXCEPT !.kind = "presubscribed", !.ws = ws, !.ip = ip]

\* Variant: the acknowledgement repeats the interval asked for.
AckRequested(r, ip, iv) == iv

\* intervalMs of the 'subscribed' message: entry.intervalMs, read after the add
AckInterval(r, ip, iv) == r.subs[ip].intervalMs

\* message {type: 'subscribe', ip, intervalMs}
Subscribe(ws, ip, iv) ==
    LET r1 == SubscribeReg(Reg, ip, iv, ws)
    IN  /\ readyState[ws] = "open"
        /\ Fits(Reg, ip, iv)
        /\ SetReg(r1)
        /\ lowest' = Asked(Reg, r1, ip, iv)
        /\ tightener' = Tightened(Reg, r1, ip, iv, ws)
        /\ joined' = [joined EXCEPT ![ws] = @ \cup {ip}]
        /\ out' = [Quiet EXCEPT !.kind = "subscribed", !.ws = ws, !.ip = ip,
                                !.to = {ws}, !.iv = AckInterval(r1, ip, iv),
                                !.was = IF ip \in DOMAIN subscriptions
                                        THEN subscriptions[ip].intervalMs ELSE 0]
        /\ UNCHANGED <<readyState, oneoffs>>

\* message {type: 'unsubscribe', ip}
Unsubscribe(ws, ip) ==
    LET r1 == UnsubscribeReg(Reg, ip, ws)
    IN  /\ readyState[ws] = "open"
        /\ SetReg(r1)
        /\ lowest' = Asked(Reg, r1, NoDevice, 0)
        /\ tightener' = Tightened(Reg, r1, NoDevice, 0, ws)
        /\ joined' = [joined EXCEPT ![ws] = @ \ {ip}]
        /\ out' = [Quiet EXCEPT !.kind = "unsubscribed", !.ws = ws, !.ip = ip,
                                !.to = {ws}, !.pre = RegisteredIn(Reg, ws) \cap {ip}]
        /\ UNCHANGED <<readyState, oneoffs>>

\* message {type: 'snapshot', ip}: one-off request
SnapshotRequest(ws, ip) ==
    /\ readyState[ws] = "open"
    /\ BagCardinality(oneoffs) < MaxOneOff
    /\ oneoffs' = BagAdd(oneoffs, [ip |-> ip, ws |-> ws])
    /\ out' = [Quiet EXCEPT !.kind = "requested"]
    /\ UNCHANGED <<subscriptions, timers, readyState, polls, lowest, tightener, joined>>

\* a message that does not parse as JSON
InvalidMessage(ws) ==
    /\ readyState[ws] = "open"
    /\ out' = [Quiet EXCEPT !.kind = "invalid", !.to = {ws}]
    /\ UNCHANGED <<subscriptions, timers, readyState, polls, oneoffs, lowest, tightener, joined>>

\* the channel stops being OPEN; its close event has not been handled yet
BeginClose(ws) ==
    /\ readyState[ws] = "open"
    /\ readyState' = [readyState EXCEPT ![ws] = "closing"]
    /\ out' = [Quiet EXCEPT !.kind = "closing"]
    /\ UNCHANGED <<subscriptions, timers, polls, oneoffs, lowest, tightener, joined>>

\* ws.on('close')
Close(ws) ==
    LET r1 == CloseReg(Reg, ws)
    IN  /\ readyState[ws] \in {"open", "closing"}
        /\ readyState' = [readyState EXCEPT ![ws] = "closed"]
        /\ SetReg(r1)
        /\ lowest' = Asked(Reg, r1, NoDevice, 0)
        /\ tightener' = Tightened(Reg, r1, NoDevice, 0, ws)
        /\ joined' = [joined EXCEPT ![ws] = {}]
        /\ out' = [Quiet EXCEPT !.kind = "closed", !.ws = ws,
                                !.pre = RegisteredIn(Reg, ws)]
        /\ UNCHANGED oneoffs

\* a setInterval callback fires: it starts fetchSnapshot(ip) and suspends
Tick(t, cap) ==
    /\ t \in timers
    /\ BagCardinality(polls) < cap
    /\ polls' = BagAdd(polls, [ip |-> t.ip, entry |-> t.entry,
                               fired |-> ClientsOf(Reg, t.ip, t.entry)])
    /\ out' = [Quiet EXCEPT !.kind = "tick", !.ip = t.ip]
    /\ UNCHANGED <<subscriptions, timers, readyState, oneoffs, lowest, tightener, joined>>

\* the assembly of a tick resolves: the callback resumes and broadcasts
PollDone(p) ==
    /\ BagIn(p, polls)
    /\ polls' = BagRemove(polls, p)
    /\ out' = [Quiet EXCEPT !.kind = "broadcast", !.ip = p.ip, !.gone = ~p.entry.live,
                            !.fired = p.fired, !.to = Recipients(Reg, p)]
    /\ UNCHANGED <<subscriptions, timers, readyState, oneoffs, lowest, tightener, joined>>

\* Variant: a catch block that reports to nobody.
ErrorToNobody(r, p) == {}

\* catch (e): the loop over entry.clients of the captured entry, run when the
\* try block has thrown.
ErrorRecipients(r, p) == OpenOf(ClientsOf(r, p.ip, p.entry))

\* the try block of a tick throws at its await: the callback resumes in its
\* catch block and reports the error; the callback ends there
PollFailed(p) ==
    /\ BagIn(p, polls)
    /\ polls' = BagRemove(polls, p)
    /\ out' = [Quiet EXCEPT !.kind = "pollerror", !.ip = p.ip, !.gone = ~p.entry.live,
                            !.fired = p.fired, !.to = ErrorRecipients(Reg, p)]
    /\ UNCHANGED <<subscriptions, timers, readyState, oneoffs, lowest, tightener, joined>>

\* Variant: the one-off snapshot goes to the subscribers of the device as well.
OneOffToSubscribers(r, o) ==
    OpenOf({o.ws} \cup (IF o.ip \in DOMAIN r.subs THEN r.subs[o.ip].clients ELSE {}))

\* .then((data) => ws.readyState === ws.OPEN && ws.send(..)): ws is the requester
OneOffRecipients(r, o) == OpenOf({o.ws})

\* a one-off assembly resolves: sent to the requester if its channel is open
OneOffDone(o) ==
    /\ BagIn(o, oneoffs)
    /\ oneoffs' = BagRemove(oneoffs, o)
    /\ out' = [Quiet EXCEPT !.kind = "oneoff", !.ip = o.ip, !.ws = o.ws,
                            !.to = OneOffRecipients(Reg, o)]
    /\ UNCHANGED <<subscriptions, timers, readyState, polls, lowest, tightener, joined>>

\* The events of the server, for the device addresses D and the intervals
\* (already clamped by the handlers) the observers ask for.
NextOn(D, connectIvs, messageIvs, cap) ==
    \/ \E ws \in Sockets : ConnectPlain(ws) /\ UNCHANGED <<fetchVars, routeVars, page>>
    \/ \E ws \in Sockets, ip \in D, iv \in connectIvs : ConnectSubscribe(ws, ip, iv) /\ UNCHANGED <<fetchVars, routeVars, page>>
    \/ \E ws \in Sockets, ip \in D, iv \in messageIvs : Subscribe(ws, ip, iv) /\ UNCHANGED <<fetchVars, routeVars, page>>
    \/ \E ws \in Sockets, ip \in D : Unsubscribe(ws, ip) /\ UNCHANGED <<fetchVars, routeVars, page>>
    \/ \E ws \in Sockets, ip \in D : SnapshotRequest(ws, ip) /\ UNCHANGED <<fetchVars, routeVars, page>>
    \/ \E ws \in Sockets : InvalidMessage(ws) /\ UNCHANGED <<fetchVars, routeVars, page>>
    \/ \E ws \in Sockets : BeginClose(ws) /\ UNCHANGED <<fetchVars, routeVars, page>>
    \/ \E ws \in Sockets : Close(ws) /\ UNCHANGED <<fetchVars, routeVars, page>>
    \/ \E t \in timers : Tick(t, cap) /\ UNCHANGED <<fetchVars, routeVars, page>>
    \/ \E p \in BagToSet(polls) : PollDone(p) /\ UNCHANGED <<fetchVars, routeVars, page>>
    \/ \E p \in BagToSet(polls) : PollFailed(p) /\ UNCHANGED <<fetchVars, routeVars, page>>
    \/ \E o \in BagToSet(oneoffs) : OneOffDone(o) /\ UNCHANGED <<fetchVars, routeVars, page>>

\* One device, every interval, overlapping assemblies.
Next == NextOn(OneDevice, ConnectIntervals, MessageIntervals, MaxInFlight)

Spec == Init /\ [][Next]_vars

\* Two devices, observers that ask for the default or a looser interval: the
\* events that write to the registry, and the one-off snapshots of connections.
WideIntervals == {ConnectInterval("absent", 0), MessageInterval(TRUE, 5000)}

NextWide ==
    \/ \E ws \in Sockets : ConnectPlain(ws) /\ UNCHANGED <<fetchVars, routeVars, page>>
    \/ \E ws \in Sockets, ip \in Devices, iv \in WideIntervals : ConnectSubscribe(ws, ip, iv) /\ UNCHANGED <<fetchVars, routeVars, page>>
    \/ \E ws \in Sockets, ip \in Devices, iv \in WideIntervals : Subscribe(ws, ip, iv) /\ UNCHANGED <<fetchVars, routeVars, page>>
    \/ \E ws \in Sockets, ip \in Devices : Unsubscribe(ws, ip) /\ UNCHANGED <<fetchVars, routeVars, page>>
    \/ \E ws \in Sockets : BeginClose(ws) /\ UNCHANGED <<fetchVars, routeVars, page>>
    \/ \E ws \in Sockets : Close(ws) /\ UNCHANGED <<fetchVars, routeVars, page>>
    \/ \E o \in BagToSet(oneoffs) : OneOffDone(o) /\ UNCHANGED <<fetchVars, routeVars, page>>

SpecWide == Init /\ [][NextWide]_vars

\* One device, observers that ask for the default interval or for one longer
\* than a timer's longest delay, one assembly at a time.
NextLong ==
    NextOn(OneDevice, {ConnectInterval("absent", 0)},
           {MessageInterval(FALSE, 0), MessageInterval(TRUE, TIMEOUT_MAX + 1)}, 1)

SpecLong == Init /\ [][NextLong]_vars

\* ------------------------------------------- actions of a snapshot request
\* The one-off request calls fetchSnapshot, which runs up to its first await.
FetchSnapshot ==
    /\ fetch = "idle"
    /\ fetch' = "pending"
    /\ step' = 1
    /\ snapshot' = Defaults
    /\ SendAndReceive
    /\ UNCHANGED <<sent, results, answer>>
    /\ UNCHANGED <<hubVars, routeVars, page>>

\* connect callback: client.write(message)
Connected ==
    /\ client.state = "connecting"
    /\ client' = [client EXCEPT !.state = "connected"]
    /\ sent' = Append(sent, CurrentMessage)
    /\ UNCHANGED <<fetch, step, snapshot, promise, sockets, results, late, answer>>
    /\ UNCHANGED <<hubVars, routeVars, page>>

\* 'data': client.destroy(); resolve(data.toString())
Data(text) ==
    /\ client.state = "connected"
    /\ client' = Destroy(client)
    /\ promise' = Settle(promise, Resolved(text))
    /\ UNCHANGED <<fetch, step, snapshot, sockets, sent, results, late, answer>>
    /\ UNCHANGED <<hubVars, routeVars, page>>

\* 'timeout': client.destroy(); reject(new Error('Connection timeout'))
Timeout ==
    /\ client.timer
    /\ client.state \in {"connecting", "connected"}
    /\ client' = Destroy(client)
    /\ promise' = Settle(promise, Rejected(TimeoutMessage))
    /\ UNCHANGED <<fetch, step, snapshot, sockets, sent, results, late, answer>>
    /\ UNCHANGED <<hubVars, routeVars, page>>

\* 'error': reject(err).  The runtime has closed a socket it reports an error on.
Error ==
    /\ client.state \in {"connecting", "connected"}
    /\ client' = Closed
    /\ promise' = Settle(promise, Rejected(ErrorMessage(client)))
    /\ UNCHANGED <<fetch, step, snapshot, sockets, sent, results, late, answer>>
    /\ UNCHANGED <<hubVars, routeVars, page>>

\* The device closes the connection without sending anything: the runtime
\* closes the socket and clears its timeout; 'end' and 'close' have no listener.
End ==
    /\ client.state = "connected"
    /\ client' = Closed
    /\ UNCHANGED <<fetch, step, snapshot, promise, sockets, sent, results, late, answer>>
    /\ UNCHANGED <<hubVars, routeVars, page>>

\* A listener of the socket that runs although the transaction is settled.
Late(event) ==
    /\ fetch = "pending"
    /\ promise.state # "pending"
    /\ late < MaxLate
    /\ late' = late + 1
    /\ client' = IF event = "error" THEN client ELSE Destroy(client)
    /\ promise' = Settle(promise, CASE event = "data" -> Resolved(Unrelated)
                                    [] event = "timeout" -> Rejected(TimeoutMessage)
                                    [] event = "error" -> Rejected(ErrorMessage(client)))
    /\ UNCHANGED <<fetch, step, snapshot, sockets, sent, results, answer>>
    /\ UNCHANGED <<hubVars, routeVars, page>>

\* fetchSnapshot resumes after an await: the rest of the try block or its catch
\* block, then the next step up to its await, or the return.
Resume ==
    LET name  == Steps[step]
        threw == Throws(name, promise)
        after == IF threw THEN Catch(snapshot, name, MessageOf(promise))
                          ELSE Assign(snapshot, name, promise.text)
        next  == NextStep(step, threw)
    IN  /\ fetch = "pending"
        /\ promise.state # "pending"
        /\ results' = Append(results, promise)
        /\ IF threw /\ ~InTry(name)
           THEN /\ fetch' = "rejected"
                /\ UNCHANGED <<step, snapshot, client, promise, sockets, late>>
           ELSE IF next <= Len(Steps)
           THEN /\ step' = next
                /\ snapshot' = after
                /\ SendAndReceive
                /\ UNCHANGED fetch
           ELSE /\ fetch' = "fulfilled"
                /\ snapshot' = [after EXCEPT !.timestamp = Now]
                /\ UNCHANGED <<step, client, promise, sockets, late>>
        /\ UNCHANGED <<sent, answer>>
        /\ UNCHANGED <<hubVars, routeVars, page>>

\* .then: the snapshot message; .catch: the error message
Answer ==
    /\ fetch \in {"fulfilled", "rejected"}
    /\ answer = "none"
    /\ answer' = IF fetch = "fulfilled" THEN "snapshot" ELSE "error"
    /\ UNCHANGED <<fetch, step, snapshot, client, promise, sockets, sent, results, late>>
    /\ UNCHANGED <<hubVars, routeVars, page>>

\* The chunks that may arrive in answer to the message of the current step.
Chunks == IF step \in 1..Len(Steps) THEN Replies(Steps[step]) ELSE {}

NextFetch ==
    \/ FetchSnapshot
    \/ Connected
    \/ \E text \in Chunks : Data(text)
    \/ Timeout
    \/ Error
    \/ End
    \/ \E event \in {"data", "timeout", "error"} : Late(event)
    \/ Resume
    \/ Answer

\* One one-off snapshot request against a device that may answer each message,
\* refuse, stay silent or hang up.
SpecFetch == Init /\ [][NextFetch]_vars

\* The runtime delivers the events that are due.
FairFetch == SpecFetch /\ WF_vars(NextFetch)

\* ------------------------------------------------------------------- claims
\* Poll-tick assemblies in flight for a device.
InFlightIn(ps, d) ==
    BagCardinality([p \in {q \in BagToSet(ps) : q.ip = d} |-> ps[p]])

InFlight(d) == InFlightIn(polls, d)

TimersOf(T, d) == {t \in T : t.ip = d}

\* C1: after every hub operation and every poll tick, an address has an entry
\* in the registry if and only if that entry's subscriber set is non-empty:
\* every entry of the map has a subscriber, and an entry the map has dropped
\* (still held by a suspended callback) has none.
EntryIffSubscribers ==
    /\ \A d \in DOMAIN subscriptions : subscriptions[d].clients # {}
    /\ \A p \in BagToSet(polls) : ~p.entry.live => p.entry.clients = {}

\* C1 witness: a close has just removed the only entry, and a tick of the
\* removed entry is still suspended.
EntryRemovedByClose ==
    /\ out.kind = "closed"
    /\ out.pre # {}
    /\ DOMAIN subscriptions = {}
    /\ \E p \in BagToSet(polls) : ~p.entry.live

\* C2 (as claimed): at most one poll-initiated assembly per device is in flight.
SingleFlight == \A d \in Devices : InFlight(d) <= 1

\* C3: while an entry exists its interval is the minimum of the clamped
\* intervals asked of it since it was created, and it never increases.
IntervalIsLowestAsked ==
    /\ [](\A d \in DOMAIN subscriptions : subscriptions[d].intervalMs = lowest[d])
    /\ [][\A d \in DOMAIN subscriptions \cap DOMAIN subscriptions' :
            subscriptions'[d].intervalMs <= subscriptions[d].intervalMs]_vars

\* C3 witness: A asked 5000, B then asked 2000 on the same device.
TightenedFrom5000To2000 ==
    /\ out.kind = "subscribed"
    /\ out.was = 5000
    /\ out.iv = 2000
    /\ Cardinality(subscriptions[out.ip].clients) = 2

\* C4: removing a subscriber (unsubscribe or disconnect) from an entry whose set
\* stays non-empty leaves the entry's interval and its running timer unchanged.
RemovalKeepsTuning ==
    [][\A d \in DOMAIN subscriptions :
          (/\ out'.kind \in {"unsubscribed", "closed"}
           /\ out'.kind = "unsubscribed" => out'.ip = d
           /\ out'.ws \in subscriptions[d].clients
           /\ readyState[out'.ws] # "closed"
           /\ subscriptions[d].clients # {out'.ws})
          => /\ d \in DOMAIN subscriptions'
             /\ subscriptions'[d].clients = subscriptions[d].clients \ {out'.ws}
             /\ subscriptions'[d].intervalMs = subscriptions[d].intervalMs
             /\ subscriptions'[d].timer = subscriptions[d].timer
             /\ TimersOf(timers', d) = TimersOf(timers, d)
             /\ \E t \in timers' : t.id = subscriptions[d].timer]_vars

\* C4 witness: the subscriber that asked for the tightest interval has just
\* unsubscribed and another one is left.
TightestSubscriberLeft ==
    /\ out.kind = "unsubscribed"
    /\ out.pre = {out.ip}
    /\ out.ip \in DOMAIN subscriptions
    /\ tightener[out.ip] = out.ws
    /\ subscriptions[out.ip].intervalMs = MinInterval

\* C5: the unsubscribe that removes the last subscriber removes the entry and
\* cancels its timer in the same step, and a tick fires for a device only while
\* the device has an entry (which only a subscribe creates).
LastUnsubscribeStopsPolling ==
    [][/\ \A d \in DOMAIN subscriptions :
            (/\ out'.kind = "unsubscribed"
             /\ out'.ip = d
             /\ subscriptions[d].clients = {out'.ws})
            => d \notin DOMAIN subscriptions' /\ TimersOf(timers', d) = {}
       /\ \A d \in Devices :
            InFlightIn(polls', d) > InFlightIn(polls, d) => d \in DOMAIN subscriptions
       /\ \A d \in Devices :
            d \notin DOMAIN subscriptions' => TimersOf(timers', d) = {}]_vars

\* C5 witness: the last subscriber has just unsubscribed and the entry is gone.
LastSubscriberUnsubscribed ==
    /\ out.kind = "unsubscribed"
    /\ out.pre = {out.ip}
    /\ out.ip \notin DOMAIN subscriptions

\* C6: unsubscribing a subscriber that is not in the entry's set, or from an
\* address that has no entry, leaves the registry as it is, and unsubscribing
\* twice leaves what unsubscribing once leaves.
UnsubscribeIdempotent ==
    \A ws \in Sockets, ip \in Devices :
        LET once == UnsubscribeReg(Reg, ip, ws)
        IN  /\ (ip \notin DOMAIN subscriptions \/ ws \notin subscriptions[ip].clients)
                => once = Reg
            /\ UnsubscribeReg(once, ip, ws) = once

\* C6 witness: a socket has just unsubscribed from an entry it was not in.
UnsubscribedNonMember ==
    /\ out.kind = "unsubscribed"
    /\ out.pre = {}
    /\ out.ip \in DOMAIN subscriptions
    /\ out.to = {out.ws}

\* C7: after a disconnect the subscriber is in no entry's set, every entry it
\* was the last subscriber of is removed with its timer cancelled, and every
\* other entry keeps its set (minus the subscriber), interval and timer.
DisconnectCleansUp ==
    [][(out'.kind = "closed" /\ readyState[out'.ws] # "closed")
        => /\ \A d \in DOMAIN subscriptions' : out'.ws \notin subscriptions'[d].clients
           /\ DOMAIN subscriptions' \subseteq DOMAIN subscriptions
           /\ \A d \in DOMAIN subscriptions :
                IF subscriptions[d].clients \ {out'.ws} = {}
                THEN d \notin DOMAIN subscriptions' /\ TimersOf(timers', d) = {}
                ELSE /\ d \in DOMAIN subscriptions'
                     /\ subscriptions'[d] =
                          [subscriptions[d] EXCEPT !.clients = @ \ {out'.ws}]
                     /\ TimersOf(timers', d) = TimersOf(timers, d)]_vars

\* C7 witness: the socket was registered on two devices; one entry became empty
\* and was removed, the other still has a subscriber and was kept.
DisconnectedFromTwo ==
    /\ out.kind = "closed"
    /\ out.pre = Devices
    /\ Cardinality(DOMAIN subscriptions) = 1

\* C8 (as claimed): a tick's snapshot goes only to subscribers that were in the
\* entry's set when the tick fired.
BroadcastToFiredSet == out.kind = "broadcast" => out.to \subseteq out.fired

\* C8 (amended): a tick's snapshot goes to exactly the subscribers that are in
\* the entry's set, with an open channel, when the assembly completes.
BroadcastToSetAtCompletion ==
    (out.kind = "broadcast" /\ ~out.gone)
    => /\ out.ip \in DOMAIN subscriptions
       /\ out.to = {w \in subscriptions[out.ip].clients : readyState[w] = "open"}

\* C8 witness: a subscriber added while the assembly was in progress received
\* that tick's snapshot.
LateSubscriberReceived ==
    /\ out.kind = "broadcast"
    /\ ~out.gone
    /\ out.fired # {}
    /\ out.to \ out.fired # {}

DroppedEntryBroadcastsToNobody ==
    out.kind = "broadcast"
    => /\ out.gone => out.to = {}
       /\ ~out.gone => out.to \subseteq subscriptions[out.ip].clients

\* C10 witness: the assembly of a removed entry finished after a new entry for
\* the same device had been created.
FinishedAfterResubscribe ==
    /\ out.kind = "broadcast"
    /\ out.gone
    /\ out.ip \in DOMAIN subscriptions


\* ------------------------------------------------------- progress replies
\* The decimal digits of a natural number.
RECURSIVE Digits(_)
Digits(n) == IF n < 10 THEN <<n>> ELSE Append(Digits(n \div 10), n % 10)

PrintedCounts == {0, 1, 29, 50}

TotalCounts == {0, 100, 200}

LayerCounts == {0, 3}

LayerTotals == {0, 12}

\* What progressBytes and progressLayers may find in a reply to the progress message.
BytesMatches == {NoMatch} \cup {<<Digits(p), Digits(n)>> : p \in PrintedCounts, n \in TotalCounts}

LayersMatches == {NoMatch} \cup {<<Digits(c), Digits(n)>> : c \in LayerCounts, n \in LayerTotals}

ProgressTexts ==
    {[raw |-> "PROGRESS", found |-> Found(("progressBytes" :> b) @@ ("progressLayers" :> l))] :
        b \in BytesMatches, l \in LayersMatches}

\* GET /:ip/progress, from the text of its second transaction to res.json(..).
ProgressRoute ==
    LET bytes  == progRes.found["progressBytes"]
        layers == progRes.found["progressLayers"]
    IN  /\ progRes # NoText
        /\ res = NoResponse
        /\ res' = [BytesPrinted        |-> IF bytes # NoMatch THEN ParseInt(bytes[1]) ELSE 0,
                   BytesTotal          |-> IF bytes # NoMatch THEN ParseInt(bytes[2]) ELSE 0,
                   PercentageCompleted |-> PercentageCompleted(bytes, layers),
                   LayerCurrent        |-> IF layers # NoMatch THEN ParseInt(layers[1]) ELSE Null,
                   LayerTotal          |-> IF layers # NoMatch THEN ParseInt(layers[2]) ELSE Null]
        /\ UNCHANGED <<hubVars, fetchVars, progRes, request, phase, page>>

\* A reply to the progress message has arrived, at fetchSnapshot (whose earlier
\* steps found nothing) and at GET /:ip/progress.
InitProgress ==
    /\ InitHub
    /\ \E text \in ProgressTexts :
          /\ progRes = text
          /\ promise = Resolved(text)
    /\ res = NoResponse
    /\ request = NoRequest
    /\ phase = "idle"
    /\ page = NewPage
    /\ fetch = "pending"
    /\ step = 5
    /\ snapshot = [Defaults EXCEPT !.temperatures = TemperaturesOf(Unrelated.found)]
    /\ client = Closed
    /\ sockets = 5
    /\ sent = [i \in 1..5 |-> PROTOCOL_MESSAGES[Steps[i]]]
    /\ results = [i \in 1..4 |-> Resolved(Unrelated)]
    /\ late = 0
    /\ answer = "none"

NextProgress == Resume \/ ProgressRoute

SpecProgress == InitProgress /\ [][NextProgress]_vars

\* ---------------------------------------------------- head position replies
\* GET /:ip/head-location, from the text of its second transaction to res.json(..).
HeadRoute ==
    /\ progRes.raw = "HEAD_POSITION"
    /\ res' = HeadLocationOf(progRes.found)
    /\ res' # res
    /\ UNCHANGED <<hubVars, fetchVars, progRes, request, phase, page>>

\* A reply to the head position message has arrived, at fetchSnapshot (whose
\* earlier steps found nothing) and at GET /:ip/head-location.
InitHead ==
    /\ InitHub
    /\ \E chars \in HeadLines :
          /\ progRes = HeadText(chars)
          /\ promise = Resolved(HeadText(chars))
    /\ res = NoResponse
    /\ request = NoRequest
    /\ phase = "idle"
    /\ page = NewPage
    /\ fetch = "pending"
    /\ step = 3
    /\ snapshot = Defaults
    /\ client = Closed
    /\ sockets = 3
    /\ sent = [i \in 1..3 |-> PROTOCOL_MESSAGES[Steps[i]]]
    /\ results = [i \in 1..2 |-> Resolved(Unrelated)]
    /\ late = 0
    /\ answer = "none"

NextHead == Resume \/ HeadRoute

SpecHead == InitHead /\ [][NextHead]_vars

\* ------------------------------------------------- actions of an HTTP route
\* A request arrives at one of the routes: the handler runs up to its first
\* await, that of the unlock transaction.
HttpRequest(route, body) ==
    /\ request = NoRequest
    /\ request' = [route |-> route, body |-> body]
    /\ phase' = "unlock"
    /\ SendAndReceive
    /\ UNCHANGED <<fetch, step, snapshot, sent, results, answer, progRes, res>>
    /\ UNCHANGED <<hubVars, page>>

\* Variant: a failed unlock is passed over, as fetchSnapshot does.
ProceedsRegardless(ph, p) == ph = "unlock"

\* Whether the handler goes on to its second transaction: the await of the
\* unlock transaction is in the one try block of the route.
Proceeds(ph, p) == ph = "unlock" /\ p.state = "resolved"

\* The handler resumes after an await: with its second transaction after the
\* unlock, else in its catch block if the transaction was rejected, else with
\* its answer.
RouteResume ==
    /\ phase \in {"unlock", "command"}
    /\ promise.state # "pending"
    /\ results' = Append(results, promise)
    /\ IF Proceeds(phase, promise)
       THEN /\ phase' = "command"
            /\ SendAndReceive
            /\ UNCHANGED res
       ELSE IF promise.state = "rejected"
       THEN /\ res' = [status |-> 500, error |-> promise.error, of |-> NoText]
            /\ phase' = "answered"
            /\ UNCHANGED <<client, promise, sockets, late>>
       ELSE /\ res' = [status |-> 200, error |-> "", of |-> promise.text]
            /\ phase' = "answered"
            /\ UNCHANGED <<client, promise, sockets, late>>
    /\ UNCHANGED <<fetch, step, snapshot, sent, answer, progRes, request>>
    /\ UNCHANGED <<hubVars, page>>

NextRoute ==
    \/ \E route \in DOMAIN RouteMessage \ {"led"} : HttpRequest(route, NoBody)
    \/ \E body \in LedBodies : HttpRequest("led", body)
    \/ Connected
    \/ \E text \in Replies(IF phase = "command" THEN RouteMessage[request.route]
                                                 ELSE "CONTROL") : Data(text)
    \/ Timeout
    \/ Error
    \/ End
    \/ RouteResume

\* One request to a route against a device that may answer each message,
\* refuse, stay silent or hang up.
SpecRoute == Init /\ [][NextRoute]_vars

\* --------------------------------------------- actions of the browser client
\* The page takes a step to q, within the handles the model has.
PageStep(q) ==
    /\ q.made <= MaxPageTimers
    /\ Len(q.sockets) <= MaxPageSockets
    /\ page' = q
    /\ UNCHANGED <<hubVars, fetchVars, routeVars>>

\* connectToPrinter(), from the answer to its GET /:ip/info on: connected and
\* a new WebSocket, or not connected
ConnectToPrinter(ok) ==
    PageStep(IF ok THEN StartWebSocket([page EXCEPT !.isConnected = TRUE])
                   ELSE [page EXCEPT !.isConnected = FALSE])

\* ws.onopen of socket k
OnOpen(k) ==
    /\ page.sockets[k] = "connecting"
    /\ PageStep(StopAutoRefresh([page EXCEPT !.sockets[k] = "open", !.wsConnected = TRUE]))

\* ws.onclose of socket k: the connection failed, was lost or was closed
OnClose(k) ==
    LET q == [page EXCEPT !.sockets[k] = "closed", !.wsConnected = FALSE]
    IN  /\ page.sockets[k] # "closed"
        /\ PageStep(IF q.checked THEN StartAutoRefresh(q) ELSE q)

\* 'change' of the auto-refresh checkbox
CheckboxChange ==
    LET q == [page EXCEPT !.checked = ~@]
    IN  PageStep(IF q.checked THEN StartAutoRefresh(q) ELSE StopAutoRefresh(q))

\* 'change' of the refresh interval
IntervalChange ==
    PageStep(IF page.checked THEN StartAutoRefresh(StopAutoRefresh(page)) ELSE page)

NextPage ==
    \/ \E ok \in BOOLEAN : ConnectToPrinter(ok)
    \/ \E k \in DOMAIN page.sockets : OnOpen(k)
    \/ \E k \in DOMAIN page.sockets : OnClose(k)
    \/ CheckboxChange
    \/ IntervalChange

\* One page: clicks on Connect, changes of the auto-refresh controls and the
\* open and close events of its WebSockets, in any order.
SpecPage == Init /\ [][NextPage]_vars

\* ------------------------------------------ claims on the snapshot assembly
Sections == {"info", "headLocation", "temperatures", "progress", "status", "errors", "timestamp"}

\* The steps, of those fetchSnapshot is through with, whose sendAndReceive rejected.
FailedSteps == {i \in 1..Len(results) : results[i].state = "rejected"}

\* C11: fetchSnapshot never rejects, whichever of its six transactions fail:
\* the object it returns has every section and a timestamp that is not null,
\* and the one-off request is answered with a snapshot, never with an error.
AssembleNeverFails ==
    /\ fetch # "rejected"
    /\ answer \in {"none", "snapshot"}
    /\ fetch = "fulfilled" =>
          /\ DOMAIN snapshot = Sections
          /\ snapshot.timestamp # Null

AllSixFailedAndAnswered ==
    /\ fetch = "fulfilled"
    /\ FailedSteps = 1..6
    /\ answer = "snapshot"

\* The step whose message m is.
IndexOfMessage(m) == CHOOSE i \in 1..Len(Steps) : PROTOCOL_MESSAGES[Steps[i]] = m

\* C12: one fetchSnapshot makes six sendAndReceive calls, one per step in the
\* order CONTROL, INFO, HEAD_POSITION, TEMP, PROGRESS, STATUS; a call is made
\* only when the one before it has settled, no step is repeated, and every
\* step is reached whatever became of the earlier ones.
SixTransactionsInOrder ==
    /\ [](/\ fetch = "pending" => sockets = step /\ Len(results) = step - 1
          /\ fetch = "fulfilled" => sockets = Len(Steps) /\ Len(results) = Len(Steps)
          /\ \A j \in 1..Len(sent) : IndexOfMessage(sent[j]) <= step
          /\ \A j, k \in 1..Len(sent) : j < k => IndexOfMessage(sent[j]) < IndexOfMessage(sent[k]))
    /\ [][/\ sockets' # sockets =>
                /\ sockets' = sockets + 1
                /\ step' = step + 1
                /\ sockets = 0 \/ promise.state # "pending"
          /\ sent' # sent => sent' = Append(sent, PROTOCOL_MESSAGES[Steps[step]])]_vars

AllAskedAfterFailedUnlock ==
    /\ fetch = "fulfilled"
    /\ results[1].state = "rejected"
    /\ sent = [i \in 1..5 |-> PROTOCOL_MESSAGES[Steps[i + 1]]]

\* An entry for each failed step fetchSnapshot is through with, in step order.
ErrorsExpected ==
    LET all == [i \in 1..Len(results) |->
                   [step |-> Steps[i], error |-> results[i].error]]
        Failed(e) == e.error # ""
    IN  SelectSeq(all, Failed)

\* C13: the error list holds one {step, error} entry for each step whose
\* transaction failed and none for the others, in the order of the steps, and
\* the section of a failed step holds the value it was declared with.
ErrorsListFailedSteps ==
    /\ snapshot.errors = ErrorsExpected
    /\ Len(snapshot.errors) = Cardinality(FailedSteps)
    /\ \A i \in FailedSteps \ {1} :
          snapshot[SectionOf[Steps[i]]] = Defaults[SectionOf[Steps[i]]]

InfoAndProgressFailed ==
    /\ fetch = "fulfilled"
    /\ FailedSteps = {2, 5}
    /\ Len(snapshot.errors) = 2
    /\ snapshot.errors[1].step = "INFO"
    /\ snapshot.errors[2].step = "PROGRESS"

\* The sections a step other than the temperature step assigns.
OtherSteps == {2, 3, 5, 6}

TemperatureKeys ==
    {"Temperature", "TargetTemperature", "T1Temperature", "T1TargetTemperature",
     "BedTemperature", "BedTargetTemperature"}

\* C14: when only the temperature step fails, the current and target
\* temperatures of tool 0, tool 1 and the bed are all present and null, the
\* error list is the one entry of step TEMP, and the other sections are what
\* their replies give.
OnlyTemperatureFailed ==
    (fetch = "fulfilled" /\ FailedSteps = {4}) =>
        /\ DOMAIN snapshot.temperatures = TemperatureKeys
        /\ \A k \in DOMAIN snapshot.temperatures : snapshot.temperatures[k] = Null
        /\ Len(snapshot.errors) = 1
        /\ snapshot.errors[1].step = "TEMP"
        /\ \A i \in OtherSteps :
              snapshot[SectionOf[Steps[i]]] = Parsed(Steps[i], results[i].text.found)

\* C15: every sendAndReceive settles, whatever the device does, and so every
\* fetchSnapshot returns.
ExecuteCompletes ==
    /\ (fetch = "pending" /\ promise.state = "pending") ~> (promise.state # "pending")
    /\ (fetch = "pending") ~> (fetch = "fulfilled")

\* C16: every sendAndReceive call creates one socket of its own, and when
\* fetchSnapshot is handed the outcome of the call (a text, a timeout or an
\* error) that socket is closed.
OneSocketClosedOnResult ==
    /\ [](sockets = Len(results) + (IF fetch = "pending" THEN 1 ELSE 0))
    /\ [][results' # results => client.state = "destroyed" /\ ~client.timer]_vars

TextTimeoutAndErrorDelivered ==
    /\ \E i \in 1..Len(results) : results[i].state = "resolved"
    /\ \E i \in 1..Len(results) : results[i].error = TimeoutMessage
    /\ \E i \in 1..Len(results) : results[i].error = "read ECONNRESET"

\* The messages a failed sendAndReceive rejects with.
Reasons == {TimeoutMessage, "connect ECONNREFUSED", "read ECONNRESET"}

\* C17: a sendAndReceive call has one outcome, the text of the first chunk or
\* the reason of a failure and never both, and a listener that runs once the
\* outcome is there (another chunk, a timeout, an error) does not change it.
OneOutcomeKept ==
    /\ [](/\ promise.state = "resolved" =>
                promise.error = "" /\ promise.text \in Chunks
          /\ promise.state = "rejected" =>
                promise.text = NoText /\ promise.error \in Reasons)
    /\ [][promise.state # "pending" /\ sockets' = sockets => promise' = promise]_vars

LateListenerIgnored ==
    /\ late = 1
    /\ promise.state = "resolved"
    /\ promise.text = Typical("INFO")

\* The percentage by bytes first, by layers next, in exact arithmetic.
PercentageClaimed(found) ==
    LET bytes  == found["progressBytes"]
        layers == found["progressLayers"]
    IN  IF bytes # NoMatch /\ ParseInt(bytes[2]) # 0
        THEN (100 * ParseInt(bytes[1])) \div ParseInt(bytes[2])
        ELSE IF layers # NoMatch /\ ParseInt(layers[2]) # 0
        THEN (100 * ParseInt(layers[1])) \div ParseInt(layers[2])
        ELSE 0

\* C18: the percentage of a progress reply is floor(printed / total * 100) when
\* the byte counts are found and the total is not 0, with or without layers
\* and also when that is 0; else floor(currentLayer / totalLayers * 100) when
\* the layers are found and their total is not 0; else 0.
PercentageAsClaimed ==
    /\ (Len(results) >= 5 /\ results[5].state = "resolved") =>
          snapshot.progress.PercentageCompleted = PercentageClaimed(results[5].text.found)
    /\ res # NoResponse => res.PercentageCompleted = PercentageClaimed(progRes.found)

\* The sections of a snapshot in whose replies nothing was found.
NothingFoundIn ==
    [info         |-> EmptyObject,
     headLocation |-> EmptyObject,
     temperatures |-> [k \in TemperatureKeys |-> Null],
     progress     |-> [BytesPrinted |-> 0, BytesTotal |-> 0, PercentageCompleted |-> 0],
     status       |-> EmptyObject]

\* C19: a field that is not found in a reply is no error.  A step is in the
\* error list exactly when its transaction failed, whatever text a transaction
\* that succeeded returned, and a reply in which nothing is found leaves every
\* field of its section absent, null or 0.
AbsenceIsNoError ==
    \A i \in 1..Len(results) :
        /\ (\E j \in 1..Len(snapshot.errors) : snapshot.errors[j].step = Steps[i])
              <=> results[i].state = "rejected"
        /\ (i > 1 /\ results[i].text = Unrelated) =>
              snapshot[SectionOf[Steps[i]]] = NothingFoundIn[SectionOf[Steps[i]]]

NothingFoundAnywhere ==
    /\ fetch = "fulfilled"
    /\ \A i \in 1..Len(Steps) : results[i].text = Unrelated
    /\ snapshot.errors = <<>>

\* C20: a one-off snapshot request leaves the registry as it is, with or
\* without an entry for the address: no entry, subscriber set, interval or
\* timer changes when it is made or when it is answered, and its snapshot is
\* sent to the requester only.
OneOffLeavesRegistry ==
    [][(oneoffs' # oneoffs /\ out'.kind \in {"requested", "oneoff"}) =>
          /\ subscriptions' = subscriptions
          /\ timers' = timers
          /\ polls' = polls
          /\ out'.to \subseteq {out'.ws}]_vars

OneOffBesideSubscribers ==
    /\ out.kind = "oneoff"
    /\ out.to = {out.ws}
    /\ out.ip \in DOMAIN subscriptions
    /\ out.ws \notin subscriptions[out.ip].clients
    /\ OpenOf(subscriptions[out.ip].clients) # {}

\* C21: the interval of every entry is at
\* least 500 ms in every reachable state, whatever integer a subscribe message
\* or the opening parameters carry (0 and negative numbers included), and a
\* request that carries no usable interval asks for the default of 2000 ms.
IntervalNeverBelowMinimum ==
    /\ \A d \in DOMAIN subscriptions : subscriptions[d].intervalMs >= MinInterval
    /\ \A n \in RawIntervals :
          /\ MessageInterval(FALSE, n) = DefaultInterval
          /\ ConnectInterval("absent", n) = DefaultInterval
          /\ ConnectInterval("nan", n) = DefaultInterval

ClampedToMinimum ==
    /\ \E n \in RawIntervals : n <= 0 /\ MessageInterval(TRUE, n) = MinInterval
    /\ out.kind = "subscribed"
    /\ out.was = 0
    /\ out.iv = MinInterval
    /\ subscriptions[out.ip].intervalMs = MinInterval

\* C22: every device is either absent (no entry and no live timer) or active
\* (an entry with a non-empty set and exactly one live timer, the one the entry
\* holds, whose period is the entry's interval), so that there are as many
\* live timers as entries.
AbsentOrActive ==
    /\ \A d \in Devices :
          \/ d \notin DOMAIN subscriptions /\ TimersOf(timers, d) = {}
          \/ /\ d \in DOMAIN subscriptions
             /\ subscriptions[d].clients # {}
             /\ \E t \in timers :
                   /\ TimersOf(timers, d) = {t}
                   /\ t.id = subscriptions[d].timer
                   /\ t.period = subscriptions[d].intervalMs
    /\ Cardinality(timers) = Cardinality(DOMAIN subscriptions)

\* What holds whatever the delay: one live timer per entry, none without an entry.
OneTimerPerEntry ==
    /\ \A d \in Devices :
          \/ d \notin DOMAIN subscriptions /\ TimersOf(timers, d) = {}
          \/ /\ d \in DOMAIN subscriptions
             /\ subscriptions[d].clients # {}
             /\ \E t \in timers : TimersOf(timers, d) = {t} /\ t.id = subscriptions[d].timer
    /\ Cardinality(timers) = Cardinality(DOMAIN subscriptions)

\* C23: when the try block of a poll tick throws, the error is sent to the
\* subscribers of the entry whose channel is open, the callback ends without
\* touching the registry, the entry's timer stays live and its next tick can
\* fire.
TickFailureReported ==
    [][out'.kind = "pollerror" =>
          /\ out'.to = {w \in Sockets :
                          /\ readyState[w] = "open"
                          /\ IF out'.gone THEN FALSE
                             ELSE w \in subscriptions[out'.ip].clients}
          /\ subscriptions' = subscriptions
          /\ timers' = timers
          /\ (~out'.gone => \E t \in timers' :
                               /\ t.id = subscriptions'[out'.ip].timer
                               /\ t.ip = out'.ip
                               /\ BagCardinality(polls') < MaxInFlight)]_vars

FailureSentAndTimerLive ==
    /\ out.kind = "pollerror"
    /\ out.to = Sockets
    /\ \E t \in timers : t.id = subscriptions[out.ip].timer

\* C24: the handler of a connection that opens with a device address registers
\* the new observer in that device's entry, creating the entry if there is
\* none, and starts one snapshot assembly for it, all in the one step that
\* opens the channel; when an assembly started for an observer completes, its
\* result is sent to that observer alone, and only if its channel is open then.
PreSubscribedOnConnect ==
    [][/\ out'.kind = "presubscribed" =>
            /\ readyState[out'.ws] = "new"
            /\ readyState'[out'.ws] = "open"
            /\ out'.ip \in DOMAIN subscriptions'
            /\ out'.ws \in subscriptions'[out'.ip].clients
            /\ (out'.ip \in DOMAIN subscriptions =>
                     subscriptions[out'.ip].clients \subseteq subscriptions'[out'.ip].clients)
            /\ oneoffs' = BagAdd(oneoffs, [ip |-> out'.ip, ws |-> out'.ws])
       /\ out'.kind = "oneoff" =>
            /\ oneoffs = BagAdd(oneoffs', [ip |-> out'.ip, ws |-> out'.ws])
            /\ out'.to = IF readyState[out'.ws] = "open" THEN {out'.ws} ELSE {}]_vars

JoinedExistingEntryOnConnect ==
    /\ out.kind = "presubscribed"
    /\ subscriptions[out.ip].clients = Sockets
    /\ BagIn([ip |-> out.ip, ws |-> out.ws], oneoffs)

\* C25: whatever the interleaving of the subscribe, unsubscribe and disconnect
\* handlers with the tick callbacks, those suspended in an assembly included,
\* a socket is in the set of a device exactly when the last thing it did about
\* that device was to subscribe and it has not disconnected since.
NoLostUpdate ==
    \A w \in Sockets, d \in Devices :
        (d \in DOMAIN subscriptions /\ w \in subscriptions[d].clients) <=> d \in joined[w]

LeftWhileTickSuspended ==
    /\ out.kind = "unsubscribed"
    /\ out.pre = {out.ip}
    /\ out.ip \in DOMAIN subscriptions
    /\ \E p \in BagToSet(polls) : p.ip = out.ip /\ p.entry.live /\ out.ws \in p.fired
    /\ joined[out.ws] = {}

\* The command C26 expects of a body.
LedExpected(body) ==
    LET within(n) == IF n < 0 THEN 0 ELSE IF n > 255 THEN 255 ELSE n
    IN  IF body.state = "off" THEN "~M146 r0 g0 b0\r\n"
        ELSE IF body.r.num /\ body.g.num /\ body.b.num
        THEN "~M146 r" \o ToString(within(body.r.n)) \o " g" \o ToString(within(body.g.n))
             \o " b" \o ToString(within(body.b.n)) \o "\r\n"
        ELSE "~M146 r255 g255 b255\r\n"

\* C26: the command POST /:ip/led writes to the device carries each of r, g
\* and b brought into 0..255 when all three are numbers; it is the LED-off
\* command when state is 'off', whatever r, g and b are, and the LED-on (white)
\* command when state is not 'off' and the three are not all numbers.
LedCommandClamped ==
    request.route = "led" /\ Len(sent) >= 2 => sent[2] = LedExpected(request.body)

LedOutOfRangeSent ==
    /\ request.route = "led"
    /\ request.body.state = "on"
    /\ request.body.r = [num |-> TRUE, n |-> -1]
    /\ request.body.g = [num |-> TRUE, n |-> 256]
    /\ request.body.b = [num |-> TRUE, n |-> 128]
    /\ Len(sent) = 2
    /\ sent[2] = "~M146 r0 g255 b128\r\n"

\* C27: a subscribe for a device that has an entry, asking for an interval
\* that is not below the entry's, adds the subscriber and nothing else: the
\* interval, the timer and its period stay as they are.  The timer is
\* cancelled and a new one started, with the interval asked for, only when
\* that interval is strictly below the entry's.
LooserSubscribeOnlyAdds ==
    [][\A ws \in Sockets, ip \in OneDevice, iv \in MessageIntervals \cup ConnectIntervals :
          (Subscribe(ws, ip, iv) \/ ConnectSubscribe(ws, ip, iv)) /\ ip \in DOMAIN subscriptions =>
              /\ subscriptions'[ip].clients = subscriptions[ip].clients \cup {ws}
              /\ IF iv >= subscriptions[ip].intervalMs
                 THEN /\ subscriptions'[ip].intervalMs = subscriptions[ip].intervalMs
                      /\ subscriptions'[ip].timer = subscriptions[ip].timer
                      /\ timers' = timers
                 ELSE /\ subscriptions'[ip].intervalMs = iv
                      /\ subscriptions'[ip].timer # subscriptions[ip].timer
                      /\ \A t \in timers : t.id = subscriptions[ip].timer => t \notin timers'
                      /\ \E t \in timers' \ timers :
                            t.id = subscriptions'[ip].timer /\ t.period = iv]_vars

JoinedAtTightestInterval ==
    /\ out.kind = "subscribed"
    /\ out.was = MinInterval
    /\ out.iv = MinInterval
    /\ subscriptions[out.ip].clients = Sockets
    /\ \E t \in timers : t.id = subscriptions[out.ip].timer /\ t.period = MinInterval

\* C28: the 'subscribed' acknowledgement goes to the subscriber, once it is in
\* the entry's set, and carries the interval the entry has after the
\* operation, which is never above the (clamped) interval asked for.
AckCarriesEffectiveInterval ==
    [][\A ws \in Sockets, ip \in OneDevice, iv \in MessageIntervals :
          Subscribe(ws, ip, iv) =>
              /\ out'.kind = "subscribed"
              /\ out'.to = {ws}
              /\ ws \in subscriptions'[ip].clients
              /\ out'.iv = subscriptions'[ip].intervalMs
              /\ out'.iv <= iv
              /\ out'.iv >= MinInterval]_vars

AckOfTightenedEntry ==
    /\ out.kind = "subscribed"
    /\ out.was = MinInterval
    /\ out.iv = MinInterval
    /\ lowest[out.ip] = MinInterval
    /\ tightener[out.ip] # out.ws
    /\ out.ws \in subscriptions[out.ip].clients

\* The message a route is expected to send after the unlock message.
CommandExpected ==
    CASE request.route = "pause" -> "~M25\r\n"
      [] request.route = "resume" -> "~M24\r\n"
      [] request.route = "cancel" -> "~M26\r\n"
      [] request.route = "home" -> "~G28\r\n"
      [] request.route = "info" -> "~M115\r\n"
      [] request.route = "headLocation" -> "~M114\r\n"
      [] request.route = "temp" -> "~M105\r\n"
      [] request.route = "progress" -> "~M27\r\n"
      [] request.route = "status" -> "~M119\r\n"
      [] OTHER -> LedExpected(request.body)

\* C29: in each of the ten routes that talk to the device the first message
\* written is the unlock message, and the route's own message is written only
\* once the unlock transaction has been answered; when the unlock transaction
\* fails the route writes nothing more and answers with an error response.
UnlockGatesCommand ==
    /\ Len(sent) <= 2
    /\ Len(sent) >= 1 => sent[1] = "~M601 S1\r\n"
    /\ Len(sent) = 2 =>
          /\ Len(results) >= 1
          /\ results[1].state = "resolved"
          /\ sent[2] = CommandExpected
    /\ Len(results) >= 1 /\ results[1].state = "rejected" =>
          /\ Len(results) = 1
          /\ Len(sent) <= 1
          /\ phase = "answered"
          /\ res.status = 500
          /\ res.error = results[1].error

UnlockTimedOutAfterWrite ==
    /\ request.route = "pause"
    /\ phase = "answered"
    /\ sent = <<"~M601 S1\r\n">>
    /\ Len(results) = 1
    /\ results[1] = Rejected(TimeoutMessage)
    /\ res.status = 500

\* The token that follows the label of an axis in a text: what stands after
\* the first "axis:" and any whitespace, up to the next whitespace or the end.
Whitespace == {" ", "\t", "\r", "\n"}

TokenAfter(axis, text) ==
    LET i == Min({k \in 1..(Len(text) - 1) : text[k] = axis /\ text[k + 1] = ":"})
        j == Min({k \in (i + 2)..(Len(text) + 1) : k = Len(text) + 1 \/ text[k] \notin Whitespace})
        e == Min({k \in j..(Len(text) + 1) : k = Len(text) + 1 \/ text[k] \in Whitespace})
    IN  SubSeq(text, j, e - 1)

\* C30: whatever the reply to the head position message, each of X, Y and Z
\* that fetchSnapshot or GET /:ip/head-location extracts from it is the token
\* that follows the label of its axis: it ends at the next whitespace
\* character, and holds no whitespace and nothing of another axis's field.
CoordinateIsToken ==
    /\ \A f \in DOMAIN res : res[f] = TokenAfter(f, progRes.chars)
    /\ \A f \in DOMAIN snapshot.headLocation :
          /\ snapshot.headLocation[f] = TokenAfter(f, progRes.chars)
          /\ \A i \in 1..Len(snapshot.headLocation[f]) :
                snapshot.headLocation[f][i] \notin Whitespace

\* Whether the WebSocket the page now holds is open.
CurrentOpen == page.ws # 0 /\ page.sockets[page.ws] = "open"

\* C31: whatever the order of the open and close events of the page's
\* successive WebSockets, wsConnected is true exactly when the WebSocket the
\* page now holds is open, and no HTTP auto-refresh timer is live while it is
\* open.
WsConnectedIffCurrentOpen ==
    /\ page.wsConnected <=> CurrentOpen
    /\ CurrentOpen => page.timers = {}

\* C32: at most one HTTP auto-refresh timer is live, and it is the one
\* autoRefreshInterval refers to, so that stopAutoRefresh leaves none live.
OneRefreshTimer ==
    /\ Cardinality(page.timers) <= 1
    /\ page.timers \subseteq {page.autoRefreshInterval}
    /\ StopAutoRefresh(page).timers = {}
====
